---- MODULE Spec2Model ----
(***************************************************************************)
(* Model of sync_script.py: one-way periodic mirroring of a source folder  *)
(* onto a replica folder.                                                  *)
(*                                                                         *)
(* The two folders are trees of entries (directories and regular files).   *)
(* A pass (sync_folders) is modelled step by step with an explicit call    *)
(* stack, one frame per active invocation of sync_folders, so that an I/O  *)
(* failure (OSError) or a KeyboardInterrupt can strike between any two     *)
(* filesystem operations.  The type tests os.path.exists / isfile / isdir  *)
(* are queries of the modelled tree.  Every operation that can raise an    *)
(* OSError (os.makedirs, os.listdir, open/read, shutil.copy2, os.remove,   *)
(* shutil.rmtree) has a failing outcome, drawn at most MaxFaults times in  *)
(* a behaviour.  The source tree is edited from outside only while the     *)
(* driver sleeps (the script assumes no concurrent writer during a pass).  *)
(* MD5 is taken to be collision free on the modelled contents.             *)
(***************************************************************************)
EXTENDS Integers, Sequences, FiniteSets, TLC

\* ---------------------------------------------------------------- bounds
MaxDepth == 2
MaxFaults == 1
MaxPasses == 2
MaxEnvOps == 1

\* ------------------------------------------------------ program constants
CHUNK_SIZE == 4096

\* ------------------------------------------------------------ filesystem
Names == {"a", "b"}
Root == <<>>

\* Relative paths below a root folder: the root holds the entries "a" and
\* "b"; below "a" runs a chain of entries "a" down to MaxDepth levels.
Paths ==
  { p \in UNION { [1..n -> Names] : n \in 0..MaxDepth } :
      Len(p) >= 2 => \A i \in 1..Len(p) : p[i] = "a" }

Contents == { <<0>>, <<1>> }
MTimes == { 0, 1 }

NoEntry == [kind |-> "none"]
DirNode == [kind |-> "dir"]
FileNode(c, m) == [kind |-> "file", content |-> c, mtime |-> m]

Parent(p) == SubSeq(p, 1, Len(p) - 1)
IsUnder(p, q) == Len(q) >= Len(p) /\ SubSeq(q, 1, Len(p)) = p

WellFormed(t) ==
  /\ t[Root].kind \in {"none", "dir"}
  /\ \A p \in Paths \ {Root} : t[p] # NoEntry => t[Parent(p)].kind = "dir"

InitNodes == {NoEntry, DirNode} \cup { FileNode(c, 0) : c \in Contents }
InitTrees == { t \in [Paths -> InitNodes] : WellFormed(t) }

join(dir, item) == Append(dir, item)
exists(t, p) == p \in Paths /\ t[p] # NoEntry
isfile(t, p) == p \in Paths /\ t[p].kind = "file"
isdir(t, p) == p \in Paths /\ t[p].kind = "dir"
listdir(t, p) == { n \in Names : exists(t, join(p, n)) }
makedirs(t, p) == [t EXCEPT ![p] = DirNode]
remove(t, p) == [t EXCEPT ![p] = NoEntry]
rmtree(t, p) == [q \in Paths |-> IF IsUnder(p, q) THEN NoEntry ELSE t[q]]
copy2(src, rep, sp, rp) == [rep EXCEPT ![rp] = src[sp]]

create_directory_never(t, directory) == t

\* Puts a directory at the path whatever is there.
create_directory_replace(t, directory) == makedirs(t, directory)

\* create_directory_if_missing, lines 81-90, when os.makedirs succeeds.
create_directory_if_missing(t, directory) ==
  IF ~exists(t, directory) THEN makedirs(t, directory) ELSE t

\* What a failed rmtree may leave: the directory itself, with any part of
\* its subtree already deleted.
rmtree_partial(t, p) ==
  { u \in [Paths -> {NoEntry} \cup { t[q] : q \in Paths }] :
      /\ WellFormed(u)
      /\ u[p] = t[p]
      /\ \A q \in Paths : u[q] = t[q] \/ (IsUnder(p, q) /\ u[q] = NoEntry) }

\* What a failed copy2 may leave at the replica path: nothing changed, or a
\* truncated file (a proper prefix of the source bytes).
copy2_partial(src, rep, sp, rp) ==
  {rep} \cup
  { [rep EXCEPT ![rp] = FileNode(SubSeq(src[sp].content, 1, n), m)] :
      n \in 0..(Len(src[sp].content) - 1), m \in MTimes }

\* -------------------------------------------------------------- hashing
Min(x, y) == IF x < y THEN x ELSE y

\* f.read(CHUNK_SIZE) at offset pos
read_chunk(content, pos) ==
  SubSeq(content, pos + 1, Min(pos + CHUNK_SIZE, Len(content)))

RECURSIVE md5_update(_, _, _)
md5_update(h, content, pos) ==
  LET chunk == read_chunk(content, pos)
  IN IF chunk = <<>> THEN h
     ELSE md5_update(h \o chunk, content, pos + Len(chunk))

size_digest(node) == <<"md5", Len(node.content)>>

calculate_md5(node) == <<"md5", md5_update(<<>>, node.content, 0)>>

get_file_info(node) == [size |-> Len(node.content), mtime |-> node.mtime]

\* ---------------------------------------------------------------- stats
ZeroStats == [copied |-> 0, updated |-> 0, deleted |-> 0, errors |-> 0]
Bump(s, key) == [s EXCEPT ![key] = @ + 1]
AddStats_overwrite(s, sub) == sub

\* stats[key] += sub_stats[key] for every key, lines 141-142.
AddStats(s, sub) == [key \in DOMAIN s |-> s[key] + sub[key]]

\* ---------------------------------------------------------------- state
VARIABLES
  source,    \* the tree under the source root
  replica,   \* the tree under the replica root
  mainPc,    \* position of main(): "loop", "sync", "log", "sleep", "stopped", "failed"
  stack,     \* active invocations of sync_folders, innermost last
  stats,     \* main's variable `stats`: what the last finished pass returned
  passes,    \* passes started so far
  faults,    \* OSErrors raised so far
  envOps,    \* outside edits of the source tree so far
  event,     \* the last log emission
  hist,      \* history: the trees when the current pass started (between two
             \* passes: the trees as the last pass left them), the errors of
             \* the previous pass, whether the source was edited since
  limits     \* what a behaviour is explored up to: passes counted, OSErrors
             \* raised, outside edits; loop: the driver keeps looping once
             \* the pass counter has reached its cap (the counter stays there)

vars == <<source, replica, mainPc, stack, stats, passes, faults, envOps, event, hist,
         limits>>

Top == stack[Len(stack)]
SetTop(f) == [stack EXCEPT ![Len(stack)] = f]
CanFault == faults < limits.faults

NewFrame(dir) ==
  [dir |-> dir, pc |-> "ensure_source", stats |-> ZeroStats,
   source_items |-> {}, replica_items |-> {}, orphans |-> {}, items |-> {}]

\* Never leaves the loop over the source items.
LoopPc_no_return(orphans, items) ==
  IF orphans # {} THEN "remove" ELSE "sync"

\* Visits the source items before the outdated ones.
LoopPc_sync_first(orphans, items) ==
  IF items # {} THEN "sync" ELSE IF orphans # {} THEN "remove" ELSE "return"

\* The loops of sync_folders: first every outdated item, then every source item.
LoopPc(orphans, items) ==
  IF orphans # {} THEN "remove" ELSE IF items # {} THEN "sync" ELSE "return"

Init ==
  /\ source \in InitTrees
  /\ replica \in InitTrees
  /\ mainPc = "loop"
  /\ stack = <<>>
  /\ stats = ZeroStats
  /\ passes = 0
  /\ faults = 0
  /\ envOps = 0
  /\ event = [op |-> "begin"]
  /\ hist = [source0 |-> source, replica0 |-> replica, faults0 |-> 0,
             prevErrors |-> -1, srcChanged |-> FALSE]
  /\ limits = [passes |-> MaxPasses, faults |-> MaxFaults, envOps |-> MaxEnvOps,
               loop |-> FALSE]

\* ----------------------------------------------------------------- main
\* main(), lines 204-215: what the two except clauses leave the driver in.
main_except_continue(exc) ==
  IF exc = "KeyboardInterrupt" THEN "stopped" ELSE "loop"

main_except_resume(exc) ==
  IF exc = "KeyboardInterrupt" THEN "loop" ELSE "failed"

main_except(exc) ==
  IF exc = "KeyboardInterrupt" THEN "stopped" ELSE "failed"

\* while True: sync_folders(args.source, args.replica)          (lines 205-207)
StartPass ==
  /\ mainPc = "loop"
  /\ passes < limits.passes \/ limits.loop
  /\ mainPc' = "sync"
  /\ stack' = <<NewFrame(Root)>>
  /\ passes' = IF passes < limits.passes THEN passes + 1 ELSE passes
  /\ event' = [op |-> "starting"]
  /\ hist' = [hist EXCEPT !.source0 = source, !.replica0 = replica, !.faults0 = faults]
  /\ UNCHANGED <<source, replica, stats, faults, envOps, limits>>

\* logging.info("Synchronization completed. ...")                (lines 208-210)
LogSummary ==
  /\ mainPc = "log"
  /\ mainPc' = "sleep"
  /\ event' = [op |-> "summary", stats |-> stats]
  /\ hist' = [source0 |-> source, replica0 |-> replica, faults0 |-> faults,
              prevErrors |-> stats.errors, srcChanged |-> FALSE]
  /\ UNCHANGED <<source, replica, stack, stats, passes, faults, envOps, limits>>

\* time.sleep(args.interval)                                       (line 211)
Sleep ==
  /\ mainPc = "sleep"
  /\ mainPc' = "loop"
  /\ event' = [op |-> "woke"]
  /\ UNCHANGED <<source, replica, stack, stats, passes, faults, envOps, hist, limits>>

\* KeyboardInterrupt, delivered anywhere inside the try of main: it is no
\* OSError, so no handler below main catches it.                (lines 212-213)
Interrupt ==
  /\ mainPc \in {"loop", "sync", "log", "sleep"}
  /\ mainPc' = main_except("KeyboardInterrupt")
  /\ stack' = <<>>
  /\ event' = [op |-> "stopped", during |-> mainPc]
  /\ UNCHANGED <<source, replica, stats, passes, faults, envOps, hist, limits>>

\* ------------------------------------------------------ exception flow
\* Counts the failure in the stats of the failing invocation and lets it return.
RaiseOSError_counted(what) ==
  /\ mainPc' = mainPc
  /\ stack' = SetTop([Top EXCEPT !.stats = Bump(@, "errors"), !.pc = "return"])
  /\ event' = [op |-> "unexpected", what |-> what]

\* An OSError raised in the innermost sync_folders outside its own try
\* (lines 162-163).  A nested invocation was called from sync_item, whose
\* except clause counts one error in the caller's stats (lines 143-145);
\* the outermost one was called from main (lines 214-215).
RaiseOSError(what) ==
  IF Len(stack) = 1
    THEN /\ mainPc' = main_except("OSError")
         /\ stack' = <<>>
         /\ event' = [op |-> "unexpected", what |-> what]
    ELSE LET parent == stack[Len(stack) - 1]
             caught == [parent EXCEPT !.stats = Bump(@, "errors"),
                                      !.pc = LoopPc({}, parent.items)]
         IN /\ mainPc' = mainPc
            /\ stack' = [SubSeq(stack, 1, Len(stack) - 1) EXCEPT ![Len(stack) - 1] = caught]
            /\ event' = [op |-> "error", path |-> Top.dir, what |-> what]

\* ------------------------------------------------ remove_outdated_items
\* The items the removal loop visits: replica_items - source_items (line 103).
outdated_reversed(source_items, replica_items) == source_items \ replica_items

outdated_none(source_items, replica_items) == {}

outdated(source_items, replica_items) == replica_items \ source_items

\* --------------------------------------------------------- sync_folders
\* create_directory_if_missing(source)                   (lines 81-90, 162)
EnsureSource ==
  /\ mainPc = "sync" /\ stack # <<>> /\ Top.pc = "ensure_source"
  /\ \/ /\ source' = create_directory_if_missing(source, Top.dir)
        /\ stack' = SetTop([Top EXCEPT !.pc = "ensure_replica"])
        /\ event' = IF exists(source, Top.dir) THEN [op |-> "none"]
                    ELSE [op |-> "mkdir", root |-> "source", path |-> Top.dir]
        /\ UNCHANGED <<mainPc, faults>>
     \/ /\ ~exists(source, Top.dir)
        /\ CanFault
        /\ faults' = faults + 1
        /\ RaiseOSError("makedirs")
        /\ UNCHANGED source
  /\ UNCHANGED <<replica, stats, passes, envOps, hist, limits>>

\* create_directory_if_missing(replica)                  (lines 81-90, 163)
EnsureReplica ==
  /\ mainPc = "sync" /\ stack # <<>> /\ Top.pc = "ensure_replica"
  /\ \/ /\ replica' = create_directory_if_missing(replica, Top.dir)
        /\ stack' = SetTop([Top EXCEPT !.pc = "list"])
        /\ event' = IF exists(replica, Top.dir) THEN [op |-> "none"]
                    ELSE [op |-> "mkdir", root |-> "replica", path |-> Top.dir]
        /\ UNCHANGED <<mainPc, faults>>
     \/ /\ ~exists(replica, Top.dir)
        /\ CanFault
        /\ faults' = faults + 1
        /\ RaiseOSError("makedirs")
        /\ UNCHANGED replica
  /\ UNCHANGED <<source, stats, passes, envOps, hist, limits>>

list_except_uncounted(f) == [f EXCEPT !.pc = "return"]

\* The except clause around the two listings, lines 168-171: one error,
\* and the level returns the stats it has.
list_except(f) == [f EXCEPT !.stats = Bump(@, "errors"), !.pc = "return"]

\* The listings and the except clause around them.            (lines 165-171)
ListDirs ==
  /\ mainPc = "sync" /\ stack # <<>> /\ Top.pc = "list"
  /\ \/ /\ isdir(source, Top.dir) /\ isdir(replica, Top.dir)
        /\ LET source_items == listdir(source, Top.dir)
               replica_items == listdir(replica, Top.dir)
               orphans == outdated(source_items, replica_items)
           IN stack' = SetTop([Top EXCEPT !.source_items = source_items,
                                          !.replica_items = replica_items,
                                          !.orphans = orphans,
                                          !.items = source_items,
                                          !.pc = LoopPc(orphans, source_items)])
        /\ event' = [op |-> "listed", path |-> Top.dir]
        /\ UNCHANGED faults
     \/ \* NotADirectoryError: one of the two paths is a regular file
        /\ ~(isdir(source, Top.dir) /\ isdir(replica, Top.dir))
        /\ stack' = SetTop(list_except(Top))
        /\ event' = [op |-> "list_error", path |-> Top.dir, injected |-> FALSE]
        /\ UNCHANGED faults
     \/ /\ CanFault
        /\ faults' = faults + 1
        /\ stack' = SetTop(list_except(Top))
        /\ event' = [op |-> "list_error", path |-> Top.dir, injected |-> TRUE]
  /\ UNCHANGED <<source, replica, mainPc, stats, passes, envOps, hist, limits>>

\* return stats (lines 171, 182); a nested invocation returns into
\* sync_item, which adds the sub-stats to its caller's (lines 140-142).
Return ==
  /\ mainPc = "sync" /\ stack # <<>> /\ Top.pc = "return"
  /\ IF Len(stack) = 1
       THEN /\ mainPc' = "log"
            /\ stats' = Top.stats
            /\ stack' = <<>>
       ELSE LET parent == stack[Len(stack) - 1]
                merged == [parent EXCEPT !.stats = AddStats(@, Top.stats),
                                         !.pc = LoopPc({}, parent.items)]
            IN /\ stack' = [SubSeq(stack, 1, Len(stack) - 1)
                              EXCEPT ![Len(stack) - 1] = merged]
               /\ UNCHANGED <<mainPc, stats>>
  /\ event' = [op |-> "returned", path |-> Top.dir, stats |-> Top.stats]
  /\ UNCHANGED <<source, replica, passes, faults, envOps, hist, limits>>

remove_except_abort(f, rest) ==
  [f EXCEPT !.stats = Bump(@, "errors"), !.orphans = {}, !.pc = LoopPc({}, f.items)]

\* The except clause of the removal loop, lines 114-116: one error, and the
\* loop goes on with the rest of the outdated items.
remove_except(f, rest) ==
  [f EXCEPT !.stats = Bump(@, "errors"), !.orphans = rest,
            !.pc = LoopPc(rest, f.items)]

\* One iteration of the loop of remove_outdated_items.         (lines 103-116)
RemoveItem ==
  /\ mainPc = "sync" /\ stack # <<>> /\ Top.pc = "remove"
  /\ \E item \in Top.orphans :
       LET item_path == join(Top.dir, item)
           rest == Top.orphans \ {item}
           next(st) == [Top EXCEPT !.stats = st, !.orphans = rest,
                                   !.pc = LoopPc(rest, Top.items)]
       IN \/ /\ isfile(replica, item_path)
             /\ replica' = remove(replica, item_path)
             /\ stack' = SetTop(next(Bump(Top.stats, "deleted")))
             /\ event' = [op |-> "removed_file", path |-> item_path]
             /\ UNCHANGED faults
          \/ /\ isdir(replica, item_path)
             /\ replica' = rmtree(replica, item_path)
             /\ stack' = SetTop(next(Bump(Top.stats, "deleted")))
             /\ event' = [op |-> "removed_dir", path |-> item_path]
             /\ UNCHANGED faults
          \/ \* neither test holds: the item is passed over
             /\ ~exists(replica, item_path)
             /\ stack' = SetTop(next(Top.stats))
             /\ event' = [op |-> "none"]
             /\ UNCHANGED <<replica, faults>>
          \/ \* OSError from os.remove: nothing is removed
             /\ isfile(replica, item_path)
             /\ CanFault
             /\ faults' = faults + 1
             /\ UNCHANGED replica
             /\ stack' = SetTop(remove_except(Top, rest))
             /\ event' = [op |-> "remove_error", path |-> item_path]
          \/ \* OSError from shutil.rmtree: the directory survives
             /\ isdir(replica, item_path)
             /\ CanFault
             /\ faults' = faults + 1
             /\ replica' \in rmtree_partial(replica, item_path)
             /\ stack' = SetTop(remove_except(Top, rest))
             /\ event' = [op |-> "remove_error", path |-> item_path]
  /\ UNCHANGED <<source, mainPc, stats, passes, envOps, hist, limits>>

\* ------------------------------------------------------------ sync_item
\* The condition of line 130, for a replica path that is no directory.
needs_copy_if_missing(source_path, replica_path) ==
  ~exists(replica, replica_path)

needs_copy_always(source_path, replica_path) == TRUE

\* Decides on size and modification time instead of on the digest.
needs_copy_by_info(source_path, replica_path) ==
  IF ~exists(replica, replica_path) THEN TRUE
  ELSE get_file_info(source[source_path]) # get_file_info(replica[replica_path])

needs_copy(source_path, replica_path) ==
  IF ~exists(replica, replica_path) THEN TRUE
  ELSE calculate_md5(source[source_path]) # calculate_md5(replica[replica_path])

shutil_copy2_swapped(source_path, replica_path) ==
  [source |-> IF exists(replica, replica_path)
                THEN copy2(replica, source, replica_path, source_path)
                ELSE source,
   replica |-> replica]

\* shutil.copy2(source_path, replica_path), line 131: the two trees after it.
shutil_copy2(source_path, replica_path) ==
  [source |-> source,
   replica |-> copy2(source, replica, source_path, replica_path)]

\* Lines 132-137, evaluated after copy2 has returned: replica_after is the
\* replica tree the test of line 132 sees.
count_copy(st, replica_after, replica_path) ==
  IF exists(replica_after, replica_path)
    THEN Bump(st, "updated")
    ELSE Bump(st, "copied")

sync_item_abort(f, rest) ==
  [f EXCEPT !.stats = Bump(@, "errors"), !.items = {}, !.pc = "return"]

\* The except clause of sync_item, lines 143-145: the frame of the calling
\* sync_folders once the item has failed; rest are the items still to visit.
sync_item_except(f, rest) ==
  [f EXCEPT !.stats = Bump(@, "errors"), !.items = rest, !.pc = LoopPc({}, rest)]

\* sync_item on a regular file of the source.        (lines 128-137, 143-145)
SyncFile ==
  /\ mainPc = "sync" /\ stack # <<>> /\ Top.pc = "sync"
  /\ \E item \in Top.items :
       LET source_path == join(Top.dir, item)
           replica_path == join(Top.dir, item)
           rest == Top.items \ {item}
           next(st) == [Top EXCEPT !.stats = st, !.items = rest,
                                   !.pc = LoopPc({}, rest)]
           same_file == isfile(replica, replica_path)
           info == [path |-> source_path,
                    existed |-> exists(replica, replica_path),
                    same_content |-> same_file
                       /\ source[source_path].content = replica[replica_path].content,
                    same_info |-> same_file
                       /\ get_file_info(source[source_path])
                            = get_file_info(replica[replica_path])]
       IN /\ isfile(source, source_path)
          /\ \/ \* the copy is needed and succeeds
                /\ ~isdir(replica, replica_path)
                /\ needs_copy(source_path, replica_path)
                /\ LET after == shutil_copy2(source_path, replica_path)
                   IN /\ source' = after.source
                      /\ replica' = after.replica
                      /\ stack' = SetTop(next(count_copy(Top.stats, after.replica,
                                                         replica_path)))
                /\ event' = [op |-> "copy"] @@ info
                /\ UNCHANGED faults
             \/ \* the two digests are equal: nothing to do
                /\ ~isdir(replica, replica_path)
                /\ ~needs_copy(source_path, replica_path)
                /\ stack' = SetTop(next(Top.stats))
                /\ event' = [op |-> "skip"] @@ info
                /\ UNCHANGED <<source, replica, faults>>
             \/ \* IsADirectoryError: calculate_md5 opens a directory
                /\ isdir(replica, replica_path)
                /\ stack' = SetTop(sync_item_except(Top, rest))
                /\ event' = [op |-> "item_error", injected |-> FALSE] @@ info
                /\ UNCHANGED <<source, replica, faults>>
             \/ \* OSError while hashing either file
                /\ isfile(replica, replica_path)
                /\ CanFault
                /\ faults' = faults + 1
                /\ stack' = SetTop(sync_item_except(Top, rest))
                /\ event' = [op |-> "item_error", injected |-> TRUE] @@ info
                /\ UNCHANGED <<source, replica>>
             \/ \* OSError from copy2
                /\ ~isdir(replica, replica_path)
                /\ needs_copy(source_path, replica_path)
                /\ CanFault
                /\ faults' = faults + 1
                /\ replica' \in copy2_partial(source, replica, source_path, replica_path)
                /\ stack' = SetTop(sync_item_except(Top, rest))
                /\ event' = [op |-> "item_error", injected |-> TRUE] @@ info
                /\ UNCHANGED source
  /\ UNCHANGED <<mainPc, stats, passes, envOps, hist, limits>>

\* sync_item on a directory of the source: ensure the replica directory,
\* then call sync_folders on the pair.               (lines 138-140, 143-145)
SyncDir ==
  /\ mainPc = "sync" /\ stack # <<>> /\ Top.pc = "sync"
  /\ \E item \in Top.items :
       LET source_path == join(Top.dir, item)
           replica_path == join(Top.dir, item)
           rest == Top.items \ {item}
           calling == [Top EXCEPT !.items = rest]
       IN /\ isdir(source, source_path)
          /\ \/ /\ replica' = create_directory_if_missing(replica, replica_path)
                /\ stack' = Append(SetTop(calling), NewFrame(source_path))
                /\ event' = IF exists(replica, replica_path)
                              THEN [op |-> "descend", path |-> source_path]
                              ELSE [op |-> "mkdir", root |-> "replica",
                                    path |-> replica_path]
                /\ UNCHANGED faults
             \/ \* OSError from os.makedirs, caught by sync_item
                /\ ~exists(replica, replica_path)
                /\ CanFault
                /\ faults' = faults + 1
                /\ stack' = SetTop(sync_item_except(Top, rest))
                /\ event' = [op |-> "item_error", injected |-> TRUE,
                             path |-> source_path, existed |-> FALSE,
                             same_content |-> FALSE, same_info |-> FALSE]
                /\ UNCHANGED replica
  /\ UNCHANGED <<source, mainPc, stats, passes, envOps, hist, limits>>

\* ---------------------------------------------------------- environment
\* Edits of the source tree by its owner, while the driver sleeps.
EnvWrite ==
  /\ mainPc = "sleep" /\ envOps < limits.envOps
  /\ \E p \in Paths \ {Root}, c \in Contents, m \in MTimes :
       /\ isdir(source, Parent(p))
       /\ ~isdir(source, p)
       /\ source[p] # FileNode(c, m)
       /\ source' = [source EXCEPT ![p] = FileNode(c, m)]
  /\ envOps' = envOps + 1
  /\ hist' = [hist EXCEPT !.srcChanged = TRUE]
  /\ UNCHANGED <<replica, mainPc, stack, stats, passes, faults, event, limits>>

EnvMkdir ==
  /\ mainPc = "sleep" /\ envOps < limits.envOps
  /\ \E p \in Paths \ {Root} :
       /\ isdir(source, Parent(p))
       /\ ~exists(source, p)
       /\ source' = makedirs(source, p)
  /\ envOps' = envOps + 1
  /\ hist' = [hist EXCEPT !.srcChanged = TRUE]
  /\ UNCHANGED <<replica, mainPc, stack, stats, passes, faults, event, limits>>

EnvRemove ==
  /\ mainPc = "sleep" /\ envOps < limits.envOps
  /\ \E p \in Paths \ {Root} :
       /\ exists(source, p)
       /\ source' = rmtree(source, p)
  /\ envOps' = envOps + 1
  /\ hist' = [hist EXCEPT !.srcChanged = TRUE]
  /\ UNCHANGED <<replica, mainPc, stack, stats, passes, faults, event, limits>>

Next ==
  \/ StartPass
  \/ EnsureSource
  \/ EnsureReplica
  \/ ListDirs
  \/ RemoveItem
  \/ SyncFile
  \/ SyncDir
  \/ Return
  \/ LogSummary
  \/ Sleep
  \/ Interrupt
  \/ EnvWrite
  \/ EnvMkdir
  \/ EnvRemove

Spec == Init /\ [][Next]_vars

\* ================================================================ claims
\* A pass has returned to main and `stats` holds what it returned.
PassReturned == mainPc = "log"

Mirrored(src, rep) ==
  \A p \in Paths :
    /\ isfile(src, p) => isfile(rep, p) /\ rep[p].content = src[p].content
    /\ isdir(src, p) => isdir(rep, p)

NoExtras(src, rep) == \A p \in Paths : exists(rep, p) => exists(src, p)

\* C1 - mirror invariant: when a pass returns with errors = 0, every file
\* under source has a replica file at the same relative path with the same
\* content, and every directory under source has a replica directory there.
C1_MirrorInvariant ==
  (PassReturned /\ stats.errors = 0) => Mirrored(source, replica)

\* A clean pass that had to overwrite a nested replica file.
C1_Witness ==
  /\ PassReturned /\ stats.errors = 0 /\ stats.updated >= 1
  /\ \E p \in Paths :
       /\ Len(p) = 2 /\ isfile(source, p)
       /\ isfile(hist.replica0, p)
       /\ hist.replica0[p].content # source[p].content

\* C2 - strict mirror / deletion: when a pass returns with errors = 0, no
\* entry exists under the replica root without an entry of the same relative
\* path under the source root, and every entry that was only under replica
\* when the pass started is gone.
C2_StrictMirror ==
  (PassReturned /\ stats.errors = 0) =>
     /\ NoExtras(source, replica)
     /\ \A p \in Paths \ {Root} :
          (exists(hist.replica0, p) /\ ~exists(hist.source0, p)) => ~exists(replica, p)

\* A clean pass that removed an orphan file and an orphan directory tree.
C2_Witness ==
  /\ PassReturned /\ stats.errors = 0 /\ stats.deleted = 2
  /\ isdir(hist.replica0, <<"a">>) /\ exists(hist.replica0, <<"a", "a">>)
  /\ isfile(hist.replica0, <<"b">>)
  /\ ~exists(replica, <<"a">>) /\ ~exists(replica, <<"b">>)

\* C3 - copied/updated classification: a copy of a source file increments
\* `copied` and not `updated` when no replica entry existed at the path
\* before the copy, and `updated` and not `copied` when one existed.
C3_CopiedUpdatedClassification ==
  [][ event'.op = "copy" =>
        LET before == Top.stats
            after == stack'[Len(stack')].stats
        IN IF exists(replica, event'.path)
             THEN after.updated = before.updated + 1 /\ after.copied = before.copied
             ELSE after.copied = before.copied + 1 /\ after.updated = before.updated
    ]_vars

\* C4 (as stated) - idempotence: if the source tree does not change between
\* two consecutive passes, the second returns all-zero stats and leaves the
\* replica tree unchanged.  Read in the claim's favour: in behaviours where
\* no I/O operation has failed at all.
C4_IdempotenceUnconditional ==
  (PassReturned /\ hist.prevErrors >= 0 /\ ~hist.srcChanged /\ faults = 0) =>
     stats = ZeroStats /\ replica = hist.replica0

\* C4 (amended) - if the source tree does not change between two consecutive
\* passes and the first of them returned errors = 0, the second returns
\* copied = updated = deleted = 0 and leaves the replica tree unchanged; its
\* errors is 0 too unless an I/O operation fails during it.
C4_IdempotenceAfterCleanPass ==
  (PassReturned /\ hist.prevErrors = 0 /\ ~hist.srcChanged) =>
     /\ stats.copied = 0 /\ stats.updated = 0 /\ stats.deleted = 0
     /\ replica = hist.replica0
     /\ faults = hist.faults0 => stats.errors = 0

\* A second pass over an unchanged, non-trivial source after a clean first one.
C4_Witness ==
  /\ PassReturned /\ hist.prevErrors = 0 /\ ~hist.srcChanged
  /\ faults = hist.faults0 /\ stats = ZeroStats
  /\ isfile(source, <<"a", "a">>) /\ isfile(source, <<"b">>)

\* C5 (as stated) - a pass never creates, modifies or deletes any path at or
\* under the source root, a missing source root included.
C5_SourceNeverTouched ==
  [][ mainPc = "sync" => source' = source ]_vars

\* C5 (amended) - a pass never modifies or deletes any path at or under the
\* source root, and creates nothing there except the source root itself, as
\* an empty directory, when it is missing.
C5_SourceOnlyRootCreated ==
  [][ mainPc = "sync" =>
        \/ source' = source
        \/ /\ ~exists(source, Root)
           /\ source' = [p \in Paths |-> IF p = Root THEN DirNode ELSE NoEntry]
    ]_vars

\* A pass that changed the replica while the source tree, files included,
\* stayed what it was.
C5_Witness ==
  /\ PassReturned
  /\ source = hist.source0
  /\ replica # hist.replica0
  /\ stats.updated >= 1 /\ stats.deleted >= 1
  /\ \E p \in Paths : isfile(source, p)

\* C6 - auto-creation: a missing replica root is created before anything is
\* listed or copied; a missing source root is created as an empty directory
\* and, errors aside, the pass ends with the replica root empty, every entry
\* the replica root held having been removed and counted in `deleted`.
C6_AutoCreation ==
  /\ (mainPc = "sync" /\ stack # <<>>) =>
        IF stack[1].pc \in {"ensure_source", "ensure_replica"}
          THEN replica = hist.replica0
          ELSE isdir(replica, Root)
  /\ (PassReturned /\ ~exists(hist.source0, Root)) =>
        /\ source = [p \in Paths |-> IF p = Root THEN DirNode ELSE NoEntry]
        /\ stats.errors = 0 =>
             /\ replica = [p \in Paths |-> IF p = Root THEN DirNode ELSE NoEntry]
             /\ stats.deleted = Cardinality(listdir(hist.replica0, Root))
             /\ stats.copied = 0 /\ stats.updated = 0

\* The source root was missing, the replica held a file and a directory tree.
C6_Witness ==
  /\ PassReturned /\ ~exists(hist.source0, Root) /\ stats.errors = 0
  /\ isdir(source, Root)
  /\ exists(hist.replica0, <<"a", "a">>) /\ isfile(hist.replica0, <<"b">>)
  /\ stats.deleted = 2

\* The step just taken ran sync_item on the source file at p, whose replica
\* counterpart was a file.
SyncFileStepOn(p) ==
  /\ event'.op \in {"copy", "skip", "item_error"}
  /\ event'.path = p
  /\ isfile(source, p) /\ isfile(replica, p)

\* C7 - content over metadata: a source file whose replica counterpart
\* exists is recopied, and counted as updated, exactly when the contents
\* differ (unless the entry fails with an I/O error), whatever the sizes and
\* modification times of the two files are.
C7_ContentOverMetadata ==
  [][ \A p \in Paths :
        SyncFileStepOn(p) =>
          LET before == Top.stats
              after == stack'[Len(stack')].stats
          IN IF source[p].content # replica[p].content
               THEN \/ /\ replica'[p] = source[p]
                       /\ after = Bump(before, "updated")
                    \/ after = Bump(before, "errors")
               ELSE /\ replica' = replica
                    /\ after = before \/ after = Bump(before, "errors")
    ]_vars

\* A file was recopied although its size and modification time equalled the
\* replica's.
C7_Witness ==
  /\ event.op = "copy" /\ event.existed
  /\ event.same_info /\ ~event.same_content
  /\ replica[event.path] = source[event.path]

\* C8 - per-entry error isolation: when sync_item fails on an entry, errors
\* is incremented, the entry is skipped, the level keeps every remaining
\* entry to process and the pass goes on; a level returns only once all of
\* its entries have been visited.
C8_PerEntryErrorIsolation ==
  /\ [][ event'.op = "item_error" =>
           LET f == Top
               g == stack'[Len(stack')]
               item == event'.path[Len(event'.path)]
           IN /\ mainPc' = "sync"
              /\ Len(stack') = Len(stack)
              /\ g.stats = Bump(f.stats, "errors")
              /\ item \in f.items
              /\ g.items = f.items \ {item}
              /\ g.pc = IF g.items = {} THEN "return" ELSE "sync"
              /\ g.dir = f.dir /\ g.source_items = f.source_items
       ]_vars
  /\ [](\A i \in 1..Len(stack) :
          stack[i].pc = "return" => stack[i].items = {} /\ stack[i].orphans = {})

\* An entry has just failed and its level still has an entry to process.
C8_Witness ==
  /\ mainPc = "sync" /\ stack # <<>>
  /\ event.op = "item_error"
  /\ Top.stats.errors = 1
  /\ Top.items # {} /\ Top.pc = "sync"

\* C9 - driver fatal error: an error that escapes the pass puts the driver
\* in its terminated state, and from there no pass is started any more.
C9_FatalErrorEndsDriver ==
  /\ [][ event'.op = "unexpected" => mainPc' = "failed" /\ stack' = <<>> ]_vars
  /\ [][ mainPc = "failed" => mainPc' = "failed" /\ passes' = passes /\ stack' = <<>> ]_vars

\* The driver has terminated on an error with passes still to run.
C9_Witness ==
  /\ mainPc = "failed" /\ event.op = "unexpected"
  /\ passes < MaxPasses

\* C10 - cancellation: a KeyboardInterrupt, during a pass or during the
\* sleep, terminates the driver, which starts no further pass and leaves the
\* replica as the interrupted pass had it (no rollback).
C10_Cancellation ==
  /\ [][ event'.op = "stopped" =>
           mainPc' = "stopped" /\ stack' = <<>> /\ replica' = replica ]_vars
  /\ [][ mainPc = "stopped" =>
           mainPc' = "stopped" /\ passes' = passes /\ stack' = <<>>
           /\ replica' = replica ]_vars

\* Interrupted in mid-pass: the replica is no longer what it was and not
\* yet a mirror of the source.
C10_Witness ==
  /\ mainPc = "stopped" /\ event.during = "sync"
  /\ passes < MaxPasses
  /\ replica # hist.replica0
  /\ ~(Mirrored(source, replica) /\ NoExtras(source, replica))

\* ------------------------------------------------- the a.txt scenario
\* "hello" and "world": two contents of the same length.
Hello == <<0>>
World == <<1>>

\* A root directory holding the one entry "a" (a.txt), or nothing.
OnlyA(node) ==
  [p \in Paths |-> IF p = Root THEN DirNode ELSE IF p = <<"a">> THEN node ELSE NoEntry]

\* source = {a.txt = "hello"}, replica empty; four passes, two edits of the
\* source, no I/O failure.
ScenarioInit ==
  /\ source = OnlyA(FileNode(Hello, 0))
  /\ replica = OnlyA(NoEntry)
  /\ mainPc = "loop"
  /\ stack = <<>>
  /\ stats = ZeroStats
  /\ passes = 0
  /\ faults = 0
  /\ envOps = 0
  /\ event = [op |-> "begin"]
  /\ hist = [source0 |-> source, replica0 |-> replica, faults0 |-> 0,
             prevErrors |-> -1, srcChanged |-> FALSE]
  /\ limits = [passes |-> 4, faults |-> 0, envOps |-> 2, loop |-> FALSE]

ScenarioSpec == ScenarioInit /\ [][Next]_vars

StatsOf(c, u, d, e) == [copied |-> c, updated |-> u, deleted |-> d, errors |-> e]

\* C11 - the four-pass scenario: pass 1 copies a.txt and returns {1,0,0,0};
\* pass 2, nothing changed, returns {0,0,0,0}; pass 3, after a.txt became
\* "world", returns {0,1,0,0}; pass 4, after a.txt was deleted, returns
\* {0,0,1,0} and the replica holds no a.txt.
C11_FourPassScenario ==
  PassReturned =>
    /\ passes = 1 =>
         /\ stats = StatsOf(1, 0, 0, 0)
         /\ isfile(replica, <<"a">>) /\ replica[<<"a">>].content = Hello
    /\ (passes = 2 /\ envOps = 0) => stats = StatsOf(0, 0, 0, 0)
    /\ (passes = 3 /\ envOps = 1 /\ hist.srcChanged
          /\ \E m \in MTimes : source = OnlyA(FileNode(World, m))) =>
         stats = StatsOf(0, 1, 0, 0)
    /\ (passes = 4 /\ envOps = 2 /\ hist.srcChanged
          /\ source = OnlyA(NoEntry)
          /\ isfile(hist.replica0, <<"a">>)
          /\ hist.replica0[<<"a">>].content = World) =>
         /\ stats = StatsOf(0, 0, 1, 0)
         /\ ~exists(replica, <<"a">>)

\* The same scenario with pass 1 left out: what the code does in passes 2-4.
C11_ScenarioAfterFirstPass ==
  (PassReturned /\ passes > 1) => C11_FourPassScenario

\* The fourth pass of the scenario has returned.
C11_ScenarioRuns ==
  /\ PassReturned /\ passes = 4 /\ envOps = 2 /\ hist.srcChanged
  /\ source = OnlyA(NoEntry)
  /\ hist.replica0[<<"a">>] = FileNode(World, 0)
  /\ stats = StatsOf(0, 0, 1, 0)

\* sync_item has run on the source file at p (lines 128-137, 143-145).
SyncItemOnFile(p) ==
  /\ event'.op \in {"copy", "skip", "item_error"}
  /\ event'.path = p
  /\ isfile(source, p)

\* C12 - copy decision: a source file processed by sync_item is copied to the
\* replica path if and only if the replica path does not exist or the
\* replica file's content differs from the source's (an entry that fails
\* with an error is not copied and counts as an error only); when the replica
\* file exists with identical content it is left untouched and no counter
\* changes.
C12_CopyDecision ==
  [][ \A p \in Paths :
        SyncItemOnFile(p) =>
          LET before == Top.stats
              after == stack'[Len(stack')].stats
              need == IF ~exists(replica, p) THEN TRUE
                      ELSE isfile(replica, p)
                             /\ replica[p].content # source[p].content
              copied_now ==
                /\ replica' = [replica EXCEPT ![p] = source[p]]
                /\ after.copied + after.updated = before.copied + before.updated + 1
                /\ after.deleted = before.deleted /\ after.errors = before.errors
              failed ==
                /\ event'.op = "item_error"
                /\ after = Bump(before, "errors")
          IN /\ event'.op = "copy" <=> (need /\ ~failed)
             /\ event'.op = "copy" => copied_now
             /\ event'.op = "skip" => replica' = replica /\ after = before
             /\ (isfile(replica, p) /\ replica[p].content = source[p].content) =>
                  /\ replica' = replica
                  /\ after = before \/ (failed /\ event'.injected)
             /\ need => copied_now \/ failed
    ]_vars

\* A file missing from the replica has been copied, and a file whose replica
\* was identical has been left alone in the same pass.
C12_Witness ==
  /\ event.op = "copy" /\ ~event.existed
  /\ replica[event.path] = source[event.path]
  /\ \E q \in Paths : q # event.path /\ isfile(source, q) /\ replica[q] = source[q]
                     /\ hist.replica0[q] = replica[q]

\* C13 - listing error: when listing the source or the replica directory of
\* a level fails, that level returns with errors incremented by one, having
\* removed, copied and descended into nothing; its parent adds the error to
\* its own stats and still processes all of its remaining entries.
C13_ListingError ==
  /\ [][ event'.op = "list_error" =>
           LET f == Top
               g == stack'[Len(stack')]
           IN /\ Len(stack') = Len(stack)
              /\ \A i \in 1..(Len(stack) - 1) : stack'[i] = stack[i]
              /\ f.stats = ZeroStats
              /\ g.stats = StatsOf(0, 0, 0, 1)
              /\ g.pc = "return" /\ g.items = {} /\ g.orphans = {}
              /\ replica' = replica /\ source' = source
       ]_vars
  /\ [][ event.op = "list_error" =>
           /\ event'.op \in {"list_error", "returned", "stopped"}
           /\ replica' = replica
           /\ event'.op = "returned" =>
                event'.path = event.path /\ event'.stats = StatsOf(0, 0, 0, 1)
       ]_vars
  /\ [][ (event'.op = "returned" /\ Len(stack) >= 2) =>
           LET parent == stack[Len(stack) - 1]
               after == stack'[Len(stack')]
           IN /\ mainPc' = "sync"
              /\ Len(stack') = Len(stack) - 1
              /\ after.stats = AddStats(parent.stats, event'.stats)
              /\ after.items = parent.items
              /\ after.pc = IF parent.items = {} THEN "return" ELSE "sync"
       ]_vars

\* A subdirectory whose replica path is a regular file could not be listed:
\* it has returned one error to its parent, which has entries left to visit.
C13_Witness ==
  /\ event.op = "returned" /\ event.stats = StatsOf(0, 0, 0, 1)
  /\ isdir(source, event.path) /\ isfile(replica, event.path)
  /\ Len(stack) = 1
  /\ Top.stats.errors = 1 /\ Top.pc = "sync" /\ Top.items # {}

\* C14 - orphan removal accounting: the orphans of a level are the entries
\* of its replica listing that are absent from its source listing; each is
\* attempted exactly once; a successful removal (a file, or a directory with
\* its subtree) increments deleted by one, a failed one increments errors by
\* one and the loop goes on with the remaining orphans; entries of the source
\* listing are never removed.
C14_OrphanRemovalAccounting ==
  /\ [][ event'.op = "listed" =>
           LET g == stack'[Len(stack')]
           IN /\ g.replica_items = listdir(replica, g.dir)
              /\ g.source_items = listdir(source, g.dir)
              /\ g.orphans = g.replica_items \ g.source_items
       ]_vars
  /\ [][ event'.op \in {"removed_file", "removed_dir", "remove_error"} =>
           LET f == Top
               g == stack'[Len(stack')]
               p == event'.path
               item == p[Len(p)]
           IN /\ Len(stack') = Len(stack)
              /\ p = join(f.dir, item)
              /\ item \in f.orphans
              /\ item \in f.replica_items /\ item \notin f.source_items
              /\ g.orphans = f.orphans \ {item}
              /\ g.items = f.items /\ g.source_items = f.source_items
              /\ g.pc = IF g.orphans # {} THEN "remove"
                        ELSE IF g.items # {} THEN "sync" ELSE "return"
              /\ \A q \in Paths : ~IsUnder(p, q) => replica'[q] = replica[q]
              /\ IF event'.op = "remove_error"
                   THEN /\ g.stats = Bump(f.stats, "errors")
                        /\ exists(replica', p)
                   ELSE /\ g.stats = Bump(f.stats, "deleted")
                        /\ \A q \in Paths : IsUnder(p, q) => ~exists(replica', q)
       ]_vars
  /\ [](\A i \in 1..Len(stack) :
          /\ stack[i].orphans \subseteq stack[i].replica_items \ stack[i].source_items
          /\ stack[i].pc \in {"sync", "return"} => stack[i].orphans = {})

\* One orphan could not be removed and the other is still to be attempted.
C14_Witness ==
  /\ event.op = "remove_error"
  /\ mainPc = "sync" /\ stack # <<>>
  /\ Top.pc = "remove" /\ Top.orphans # {}
  /\ Top.stats.errors = 1 /\ Top.stats.deleted = 0

\* What one event at a level may make of the level's stats.
Counted(st, op) ==
  IF op = "copy" THEN {Bump(st, "copied"), Bump(st, "updated")}
  ELSE IF op \in {"removed_file", "removed_dir"} THEN {Bump(st, "deleted")}
  ELSE IF op \in {"remove_error", "item_error", "list_error", "error"}
         THEN {Bump(st, "errors")}
  ELSE {st}

\* C15 - stats aggregation: the stats a level returns are the counts of the
\* events at that level plus, field by field, the stats returned by the
\* recursive calls on its subdirectories; the four counters are never
\* negative, every level and every pass starts from all zeros, and a pass
\* returns its own stats whatever the previous pass returned.
C15_StatsAggregation ==
  /\ [](/\ \A key \in DOMAIN stats : stats[key] >= 0
        /\ \A i \in 1..Len(stack) : \A key \in DOMAIN stats : stack[i].stats[key] >= 0)
  /\ [][ event'.op = "starting" =>
           Len(stack') = 1 /\ stack'[1].stats = ZeroStats ]_vars
  /\ [][ (mainPc = "sync" /\ mainPc' = "sync") =>
           LET n == Len(stack)
               m == Len(stack')
           IN /\ m \in {n - 1, n, n + 1}
              /\ \A i \in 1..(n - 1) : i < m => stack'[i].stats = stack[i].stats
              /\ m = n + 1 => stack'[m].stats = ZeroStats /\ stack'[n].stats = stack[n].stats
              /\ m = n => stack'[n].stats \in Counted(stack[n].stats, event'.op)
              /\ m = n - 1 =>
                   IF event'.op = "returned"
                     THEN /\ event'.stats = stack[n].stats
                          /\ \A key \in DOMAIN ZeroStats :
                               stack'[m].stats[key] = stack[m].stats[key] + stack[n].stats[key]
                     ELSE stack'[m].stats = Bump(stack[m].stats, "errors")
       ]_vars
  /\ [][ (mainPc = "sync" /\ mainPc' = "log") =>
           Len(stack) = 1 /\ stats' = stack[1].stats /\ event'.op = "returned" ]_vars
  /\ [][ stats' # stats => (mainPc = "sync" /\ mainPc' = "log") ]_vars

\* A subdirectory has returned its copies to a parent that had removed an
\* orphan of its own: the parent now holds both.
C15_Witness ==
  /\ event.op = "returned" /\ Len(stack) = 1
  /\ event.stats.copied + event.stats.updated >= 1
  /\ Top.stats.deleted >= 1 /\ event.stats.deleted = 0
  /\ Top.stats.copied = event.stats.copied /\ Top.stats.updated = event.stats.updated
  /\ Top.stats.errors = event.stats.errors

\* The source entries whose replica entry, at the start of the pass, was of
\* the other kind.
KindMismatches ==
  { p \in Paths \ {Root} :
      \/ isfile(source, p) /\ isdir(hist.replica0, p)
      \/ isdir(source, p) /\ isfile(hist.replica0, p) }

\* No OSError was injected during the current pass.
NoFaultThisPass == faults = hist.faults0

\* C16 - kind change: a source file whose replica entry is a directory, or a
\* source directory whose replica entry is a file, costs the pass at least
\* one error; the replica entry is not replaced by one of the source's kind;
\* the other entries are still processed; and the error recurs on every pass
\* for as long as the mismatch is there.
C16_KindChange ==
  /\ [][ \A p \in Paths :
           (SyncItemOnFile(p) /\ isdir(replica, p)) =>
             LET f == Top
                 g == stack'[Len(stack')]
             IN /\ event'.op = "item_error"
                /\ replica' = replica
                /\ g.stats = Bump(f.stats, "errors")
                /\ g.items = f.items \ {p[Len(p)]}
                /\ g.pc = IF g.items = {} THEN "return" ELSE "sync"
       ]_vars
  /\ [][ (event'.op \in {"descend", "mkdir"} /\ mainPc = "sync" /\ Top.pc = "sync"
            /\ isfile(replica, event'.path)) =>
           /\ replica' = replica
           /\ Len(stack') = Len(stack) + 1
           /\ stack'[Len(stack')].dir = event'.path
       ]_vars
  /\ [][ \A i \in 1..Len(stack) :
           isfile(replica, stack[i].dir) =>
             /\ replica'[stack[i].dir] = replica[stack[i].dir]
             /\ (i = Len(stack) /\ event'.op = "returned") =>
                  event'.stats = StatsOf(0, 0, 0, 1)
       ]_vars
  /\ [](\A i \in 1..Len(stack) :
          isfile(replica, stack[i].dir) =>
            /\ stack[i].pc \in {"ensure_source", "ensure_replica", "list", "return"}
            /\ stack[i].items = {} /\ stack[i].orphans = {})
  /\ []((PassReturned /\ NoFaultThisPass) =>
          /\ stats.errors = Cardinality(KindMismatches)
          /\ \A p \in Paths :
               IF \E q \in KindMismatches : IsUnder(q, p)
                 THEN replica[p] = hist.replica0[p]
                 ELSE /\ replica[p].kind = source[p].kind
                      /\ isfile(source, p) => replica[p].content = source[p].content)

\* The second pass in a row has returned an error for the same mismatch,
\* with no I/O failure at all, and has mirrored another entry meanwhile.
C16_Witness ==
  /\ PassReturned /\ passes = 2 /\ faults = 0 /\ ~hist.srcChanged
  /\ KindMismatches # {}
  /\ hist.prevErrors >= 1 /\ stats.errors >= 1
  /\ \E p \in Paths \ {Root} : isfile(source, p) /\ replica[p] = source[p]

\* ------------------------------------------------ the driver left to run
\* The steps of the program itself: everything but the KeyboardInterrupt and
\* the edits of the source by its owner.
ProgramNext ==
  \/ StartPass \/ LogSummary \/ Sleep
  \/ EnsureSource \/ EnsureReplica \/ ListDirs \/ Return
  \/ RemoveItem \/ SyncFile \/ SyncDir

\* while True never runs out of passes: the pass counter saturates.
FairInit ==
  /\ source \in InitTrees
  /\ replica \in InitTrees
  /\ mainPc = "loop"
  /\ stack = <<>>
  /\ stats = ZeroStats
  /\ passes = 0
  /\ faults = 0
  /\ envOps = 0
  /\ event = [op |-> "begin"]
  /\ hist = [source0 |-> source, replica0 |-> replica, faults0 |-> 0,
             prevErrors |-> -1, srcChanged |-> FALSE]
  /\ limits = [passes |-> 1, faults |-> MaxFaults, envOps |-> MaxEnvOps, loop |-> TRUE]

\* A sequential program that is not interrupted takes its next step.
FairSpec == FairInit /\ [][Next]_vars /\ WF_vars(ProgramNext)

DriverEnded == mainPc \in {"stopped", "failed"}

\* A source entry has a replica entry of the other kind.
KindMismatchNow ==
  \E p \in Paths \ {Root} :
    \/ isfile(source, p) /\ isdir(replica, p)
    \/ isdir(source, p) /\ isfile(replica, p)

\* Within an invocation, the entries still to visit only shrink once the
\* level is listed: an entry that failed is not visited again.
NoRetryWithinPass ==
  [][ \A i \in 1..Len(stack) :
        (i <= Len(stack') /\ stack[i].pc \in {"remove", "sync", "return"}) =>
          /\ stack'[i].dir = stack[i].dir
          /\ stack'[i].items \subseteq stack[i].items
          /\ stack'[i].orphans \subseteq stack[i].orphans
          /\ (i = Len(stack) /\ event'.op = "item_error") =>
               event'.path[Len(event'.path)] \in stack[i].items \ stack'[i].items
    ]_vars

\* From some pass on, every pass ends with the replica identical to the
\* source and returns all-zero stats.
Converged ==
  /\ []<>PassReturned
  /\ <>[](PassReturned =>
            /\ Mirrored(source, replica) /\ NoExtras(source, replica)
            /\ stats = ZeroStats)

\* C17 (as stated) - retry by next pass: a failed entry is not retried within
\* its pass; once the source no longer changes and no I/O operation fails,
\* and unless the driver is ended, the passes converge.
C17_Convergence ==
  /\ NoRetryWithinPass
  /\ <>DriverEnded \/ Converged

\* C17 (amended) - the same, provided no source entry is left facing a
\* replica entry of the other kind.
C17_ConvergenceWithoutKindMismatch ==
  /\ NoRetryWithinPass
  /\ <>DriverEnded \/ <>[]KindMismatchNow \/ Converged

\* A pass that failed on an entry has been followed by a pass that found
\* nothing to do on an identical replica.
C17_Witness ==
  /\ PassReturned /\ stats = ZeroStats
  /\ hist.prevErrors >= 1 /\ ~hist.srcChanged
  /\ faults = MaxFaults /\ hist.faults0 = faults
  /\ Mirrored(source, replica) /\ NoExtras(source, replica)
  /\ \E p \in Paths : isfile(source, p)

\* C18 - driver sequencing: passes run strictly one after another, each
\* followed by its summary log and the sleep; a pass starts only when the
\* previous one has returned its stats and nothing of it is left running;
\* every pass terminates; and unless the driver is cancelled or hit by an
\* unexpected error, another pass is always eventually started.
C18_DriverSequencing ==
  /\ [][ mainPc' # mainPc =>
           \/ mainPc = "loop" /\ mainPc' = "sync" /\ event'.op = "starting"
           \/ mainPc = "sync" /\ mainPc' = "log" /\ event'.op = "returned"
                /\ stats' = event'.stats
           \/ mainPc = "log" /\ mainPc' = "sleep" /\ event'.op = "summary"
                /\ event'.stats = stats
           \/ mainPc = "sleep" /\ mainPc' = "loop"
           \/ mainPc' \in {"stopped", "failed"}
       ]_vars
  /\ [][ event'.op = "starting" =>
           /\ mainPc = "loop" /\ stack = <<>>
           /\ stack' = <<NewFrame(Root)>> ]_vars
  /\ [](stack # <<>> => mainPc = "sync")
  /\ [](\A i \in 1..Len(stack) : (stack[i].dir = Root) <=> (i = 1))
  /\ (mainPc = "sync") ~> (mainPc # "sync")
  /\ []<>(event.op = "starting") \/ <>DriverEnded

\* A pass has just been started after an earlier pass returned, was logged
\* and was slept on.
C18_Witness ==
  /\ event.op = "starting" /\ mainPc = "sync"
  /\ stack = <<NewFrame(Root)>>
  /\ hist.prevErrors >= 0

\* The stages of one invocation of sync_folders, in program order.
StageRank(pc) ==
  CASE pc = "ensure_source" -> 0
    [] pc = "ensure_replica" -> 1
    [] pc = "list" -> 2
    [] pc = "remove" -> 3
    [] pc = "sync" -> 4
    [] pc = "return" -> 5

\* C19 - delete-before-copy ordering: within one invocation of sync_folders,
\* every orphan removal attempt comes before any source entry of the level
\* is copied or recursed into, and both come only after the source and the
\* replica directory of the level have been ensured to exist and listed.
C19_DeleteBeforeCopy ==
  /\ [][ \A i \in 1..Len(stack) :
           i <= Len(stack') =>
             /\ stack'[i].dir = stack[i].dir
             /\ StageRank(stack'[i].pc) >= StageRank(stack[i].pc)
       ]_vars
  /\ [](\A i \in 1..Len(stack) :
          /\ (i < Len(stack) \/ stack[i].items # stack[i].source_items) =>
               stack[i].orphans = {}
          /\ stack[i].pc \in {"remove", "sync"} =>
               isdir(source, stack[i].dir) /\ isdir(replica, stack[i].dir)
          /\ stack[i].pc \in {"ensure_source", "ensure_replica", "list"} =>
               /\ stack[i].items = {} /\ stack[i].orphans = {}
               /\ stack[i].stats = ZeroStats /\ i = Len(stack))
  /\ [][ event'.op \in {"removed_file", "removed_dir", "remove_error"} =>
           /\ Top.pc = "remove"
           /\ Top.items = Top.source_items
           /\ Top.source_items = listdir(source, Top.dir)
       ]_vars
  /\ [][ (mainPc = "sync" /\ stack # <<>> /\ Top.pc = "sync"
            /\ event'.op \in {"copy", "skip", "item_error", "descend", "mkdir"}) =>
           /\ Top.orphans = {}
           /\ Top.source_items = listdir(source, Top.dir)
           /\ listdir(replica, Top.dir) \subseteq Top.replica_items \cup Top.source_items
       ]_vars
  /\ [][ event'.op \in {"listed", "list_error"} =>
           /\ Top.pc = "list"
           /\ exists(source, Top.dir) /\ exists(replica, Top.dir)
       ]_vars

\* A level that had an orphan to remove has now copied a source entry: the
\* removal is behind it.
C19_Witness ==
  /\ event.op = "copy" /\ mainPc = "sync" /\ stack # <<>>
  /\ Top.dir = Parent(event.path)
  /\ Top.replica_items \ Top.source_items # {}
  /\ Top.orphans = {} /\ Top.stats.deleted >= 1

\* C20 - directory-creation failure: an OSError from creating a missing
\* directory is not handled by sync_folders itself.  For the root pair it is
\* counted in no stats, leaves the pass and ends the driver; for a nested
\* level it is caught by the calling sync_item and counted as exactly one
\* error, after which that level goes on.
C20_CreationFailureAsymmetry ==
  /\ [][ event'.op = "unexpected" =>
           /\ Len(stack) = 1 /\ Top.dir = Root
           /\ \/ Top.pc = "ensure_source" /\ ~exists(source, Root)
              \/ Top.pc = "ensure_replica" /\ ~exists(replica, Root)
           /\ Top.stats = ZeroStats
           /\ mainPc' = "failed" /\ stack' = <<>>
           /\ stats' = stats /\ passes' = passes
           /\ source' = source /\ replica' = replica
       ]_vars
  /\ [][ mainPc = "failed" => (mainPc' = "failed" /\ stats' = stats /\ stack' = <<>>) ]_vars
  /\ [][ (mainPc = "sync" /\ stack # <<>> /\ Top.pc = "sync"
            /\ event'.op = "item_error" /\ isdir(source, event'.path)) =>
           LET f == Top
               g == stack'[Len(stack')]
           IN /\ ~exists(replica, event'.path)
              /\ mainPc' = "sync"
              /\ Len(stack') = Len(stack)
              /\ \A i \in 1..(Len(stack) - 1) : stack'[i] = stack[i]
              /\ g.stats = Bump(f.stats, "errors")
              /\ g.items = f.items \ {event'.path[Len(event'.path)]}
              /\ replica' = replica
       ]_vars
  /\ [][ event'.op = "error" =>
           /\ Len(stack) >= 2 /\ Len(stack') = Len(stack) - 1
           /\ mainPc' = "sync"
           /\ stack'[Len(stack')].stats = Bump(stack[Len(stack) - 1].stats, "errors")
       ]_vars
  /\ [](\A i \in 2..Len(stack) :
          stack[i].pc \in {"ensure_source", "ensure_replica"} =>
            exists(source, stack[i].dir) /\ exists(replica, stack[i].dir))

\* A nested replica directory could not be created: one error in the level
\* that wanted it, which has more entries to go through, the directory still
\* missing.
C20_Witness ==
  /\ event.op = "item_error" /\ event.injected
  /\ isdir(source, event.path) /\ ~exists(replica, event.path)
  /\ mainPc = "sync" /\ stack # <<>>
  /\ Top.dir = Parent(event.path)
  /\ Top.stats.errors = 1 /\ Top.pc = "sync"
====
